---- MODULE Spec2Model ----
(***************************************************************************)
(* gitsmart: the repository intelligence engine (GitContextExtractor,      *)
(* src/gitsmart/git_context.py) and the knowledge store (KnowledgeStorage, *)
(* src/gitsmart/storage.py).                                               *)
(*                                                                         *)
(* Python str values on which the code does string work (lower, in,        *)
(* re.findall, strip, join, slicing) are sequences of one-character        *)
(* strings.  Optional[str] is <<>> for None and <<s>> for a value.         *)
(***************************************************************************)
EXTENDS Integers, Sequences, FiniteSets, TLC

\* ------------------------------------------------------------------------
\* Bounds
\* ------------------------------------------------------------------------
MaxLog == 2
MaxResults == 2
MaxBroken == 1
MaxDerive == 2
MaxMemories == 2
BulkSize == 10

\* ------------------------------------------------------------------------
\* Python string primitives
\* ------------------------------------------------------------------------
UpperToLower ==
    [ch \in {"A","B","C","D","E","F","G","H","I","J","K","L","M",
             "N","O","P","Q","R","S","T","U","V","W","X","Y","Z"} |->
        CASE ch = "A" -> "a" [] ch = "B" -> "b" [] ch = "C" -> "c"
          [] ch = "D" -> "d" [] ch = "E" -> "e" [] ch = "F" -> "f"
          [] ch = "G" -> "g" [] ch = "H" -> "h" [] ch = "I" -> "i"
          [] ch = "J" -> "j" [] ch = "K" -> "k" [] ch = "L" -> "l"
          [] ch = "M" -> "m" [] ch = "N" -> "n" [] ch = "O" -> "o"
          [] ch = "P" -> "p" [] ch = "Q" -> "q" [] ch = "R" -> "r"
          [] ch = "S" -> "s" [] ch = "T" -> "t" [] ch = "U" -> "u"
          [] ch = "V" -> "v" [] ch = "W" -> "w" [] ch = "X" -> "x"
          [] ch = "Y" -> "y" [] ch = "Z" -> "z"]

LowerLetters ==
    {"a","b","c","d","e","f","g","h","i","j","k","l","m",
     "n","o","p","q","r","s","t","u","v","w","x","y","z"}

Digits == {"0","1","2","3","4","5","6","7","8","9"}

\* the characters the pattern \w matches
WordChars == LowerLetters \cup DOMAIN UpperToLower \cup Digits \cup {"_"}

\* the characters str.strip() removes
Whitespace == {" ", "\n", "\t"}

\* str.lower()
Lower(s) ==
    [i \in 1..Len(s) |->
        IF s[i] \in DOMAIN UpperToLower THEN UpperToLower[s[i]] ELSE s[i]]

\* needle in hay
contains_nonempty(needle, hay) ==
    /\ needle # <<>>
    /\ \E i \in 0..(Len(hay) - Len(needle)) :
           SubSeq(hay, i + 1, i + Len(needle)) = needle

\* needle in hay
Contains(needle, hay) ==
    \E i \in 0..(Len(hay) - Len(needle)) :
        SubSeq(hay, i + 1, i + Len(needle)) = needle

\* set(re.findall(r'\w+', s)): the maximal runs of word characters
FindallWords(s) ==
    LET IsStart(i) == s[i] \in WordChars /\ (i = 1 \/ s[i - 1] \notin WordChars)
        IsEnd(j)   == s[j] \in WordChars /\ (j = Len(s) \/ s[j + 1] \notin WordChars)
        EndOf(i)   == CHOOSE j \in i..Len(s) :
                          IsEnd(j) /\ \A k \in i..j : s[k] \in WordChars
    IN  {SubSeq(s, i, EndOf(i)) : i \in {k \in 1..Len(s) : IsStart(k)}}

\* ' '.join(parts)
RECURSIVE JoinSpace(_)
JoinSpace(parts) ==
    IF Len(parts) = 0 THEN <<>>
    ELSE IF Len(parts) = 1 THEN parts[1]
    ELSE parts[1] \o <<" ">> \o JoinSpace(Tail(parts))

\* str.strip()
Strip(s) ==
    LET keep == {i \in 1..Len(s) : s[i] \notin Whitespace}
    IN  IF keep = {} THEN <<>>
        ELSE SubSeq(s, CHOOSE i \in keep : \A k \in keep : i <= k,
                       CHOOSE j \in keep : \A k \in keep : k <= j)

\* ------------------------------------------------------------------------
\* The version-control log the engine reads (GitPython objects)
\* ------------------------------------------------------------------------
\* a 40-character hexsha; ShaA and ShaD share their first 8 characters
Sha(a, b) == [i \in 1..40 |-> IF i = 1 THEN a ELSE IF i = 9 THEN b ELSE "0"]

ShaA == Sha("a", "1")
ShaB == Sha("b", "1")
ShaD == Sha("a", "2")

Hexshas == {ShaA, ShaB, ShaD}

\* a run of commits that arrive together (git pull): BulkSha(1) is the oldest
BulkDigits == <<"0","1","2","3","4","5","6","7","8","9","a","b","c","d","e","f">>

BulkSha(k) == Sha("c", BulkDigits[k])

BulkShas == {BulkSha(k) : k \in 1..BulkSize}

BulkIndex(h) == CHOOSE k \in 1..BulkSize : BulkSha(k) = h

AllShas == Hexshas \cup BulkShas

ReadmePath == <<"R","E","A","D","M","E",".","m","d">>
LogoPath == <<"l","o","g","o",".","b","i","n">>

\* commit.message, commit.author, commit.committed_date, commit.stats
GitCommits ==
    [h \in AllShas |->
        CASE h \in BulkShas ->
               [message |-> <<"b","u","m","p","\n">>,
                author |-> "Bot", email |-> "bot@x.io",
                committed_date |-> 400000 + 1000 * BulkIndex(h),
                files |-> <<ReadmePath>>,
                insertions |-> 1, deletions |-> 1]
          [] h = ShaA ->
               [message |-> <<"f","i","x"," ","r","e","d","i","s"," ",
                              "t","i","m","e","o","u","t","\n">>,
                author |-> "Ann", email |-> "ann@x.io",
                committed_date |-> 200000,
                files |-> << <<"s","r","c","/","c","a","c","h","e",".","p","y">>,
                             ReadmePath, LogoPath >>,
                insertions |-> 3, deletions |-> 1]
          [] h = ShaB ->
               [message |-> <<"u","p","d","a","t","e"," ","d","o","c","s","\n">>,
                author |-> "Bob", email |-> "bob@x.io",
                committed_date |-> 300000,
                files |-> << <<"r","e","d","i","s","/","c","o","n","f","i","g",
                               ".","p","y">> >>,
                insertions |-> 7, deletions |-> 0]
          [] h = ShaD ->
               [message |-> <<"R","e","d","i","s"," ","n","o","t","e","s">>,
                author |-> "Ann", email |-> "ann@x.io",
                committed_date |-> 0,
                files |-> << ReadmePath,
                             <<"d","o","c","s","/","r","e","d","i","s","_",
                               "n","o","t","e","s",".","m","d">> >>,
                insertions |-> 0, deletions |-> 40]]

\* the query strings callers pass to search_commits
\* the query without a character
EmptyQuery == <<>>

Queries ==
    { <<"r","e","d","i","s">>,
      <<"R","e","d","i","s"," ","D","o","c","s">>,
      <<"f","i","x">> }

VARIABLES
    log,            \* repo.iter_commits(): hexshas, newest first
    statsBroken,    \* commits whose commit.stats raises
    commit_cache,   \* self._commit_cache: hexsha -> CommitInfo
    derivations,    \* instrumentation: stats derivations of _commit_to_info, per hexsha
    first_info,     \* instrumentation: the record the first _commit_to_info call returned
    file_cache,     \* self._file_cache: filepath -> FileHistory
    memories_file,  \* .gitsmart/knowledge/memories.json: <<>> missing, <<list>> its content
    memories_cache, \* self._memories_cache: <<>> None, <<list>> the loaded list
    ticks,          \* the number of uuid4() / now() draws so far
    queries_file,   \* .gitsmart/knowledge/queries.json: <<>> missing, <<list>> its content
    queries_cache,  \* self._queries_cache: <<>> None, <<list>> the loaded list
    explanations_file, \* .gitsmart/knowledge/explanations.json: filepath -> entry
    peer_cache,     \* self._memories_cache of a second KnowledgeStorage on the repository
    in_flight,      \* per instance: the list of a store_memory between its load and its save
    last            \* the last step: operation, arguments, outcome

engineVars == <<log, statsBroken, commit_cache, derivations, first_info, file_cache>>
peerVars == <<peer_cache, in_flight>>
storageVars == <<memories_file, memories_cache, ticks,
                 queries_file, queries_cache, explanations_file,
                 peer_cache, in_flight>>
vars == <<log, statsBroken, commit_cache, derivations, first_info, file_cache,
          memories_file, memories_cache, ticks,
          queries_file, queries_cache, explanations_file,
          peer_cache, in_flight, last>>

Range(s) == {s[i] : i \in 1..Len(s)}

\* ------------------------------------------------------------------------
\* GitContextExtractor._commit_to_info
\* ------------------------------------------------------------------------
\* a fallback that resets the file list but not the counters
stats_or_fallback_stale(h, broken) ==
    IF broken
    THEN [files_changed |-> <<>>, insertions |-> GitCommits[h].insertions,
          deletions |-> GitCommits[h].deletions]
    ELSE [files_changed |-> GitCommits[h].files,
          insertions |-> GitCommits[h].insertions,
          deletions |-> GitCommits[h].deletions]

\* the try/except around commit.stats
stats_or_fallback(h, broken) ==
    IF broken
    THEN [files_changed |-> <<>>, insertions |-> 0, deletions |-> 0]
    ELSE [files_changed |-> GitCommits[h].files,
          insertions |-> GitCommits[h].insertions,
          deletions |-> GitCommits[h].deletions]


\* a record whose short hash has seven characters
CommitInfoShort(h, broken) ==
    LET st == stats_or_fallback(h, broken)
    IN  [hash |-> h,
         short_hash |-> SubSeq(h, 1, 7),
         message |-> Strip(GitCommits[h].message),
         author |-> GitCommits[h].author,
         email |-> GitCommits[h].email,
         date |-> [timestamp |-> GitCommits[h].committed_date, tz |-> "UTC"],
         files_changed |-> st.files_changed,
         insertions |-> st.insertions,
         deletions |-> st.deletions]

\* CommitInfo(...)
CommitInfo(h, broken) ==
    LET st == stats_or_fallback(h, broken)
    IN  [hash |-> h,
         short_hash |-> SubSeq(h, 1, 8),
         message |-> Strip(GitCommits[h].message),
         author |-> GitCommits[h].author,
         email |-> GitCommits[h].email,
         date |-> [timestamp |-> GitCommits[h].committed_date, tz |-> "UTC"],
         files_changed |-> st.files_changed,
         insertions |-> st.insertions,
         deletions |-> st.deletions]

\* the records are values of the commit alone: built once per hexsha
CommitInfoTable ==
    [h \in AllShas |-> [b \in BOOLEAN |-> CommitInfo(h, b)]]

\* the engine's mutable state, threaded through the calls of one operation
Engine == [cache |-> commit_cache, derivations |-> derivations, first |-> first_info]

\* a cache that keeps the record as it was before the stats were filled in
cache_store_partial(info) ==
    [info EXCEPT !.files_changed = <<>>, !.insertions = 0, !.deletions = 0]

\* the value the cache keeps for a freshly built record
cache_store(info) == info

\* a builder that never looks into the cache
commit_to_info_uncached(eng, h) ==
    LET broken == h \in statsBroken
        info == CommitInfoTable[h][broken]
        n == eng.derivations[h]
    IN  [info |-> info,
         eng |-> [cache |-> (h :> cache_store(info)) @@ eng.cache,
                  derivations |->
                      [eng.derivations EXCEPT
                          ![h] = IF n < MaxDerive THEN n + 1 ELSE n],
                  first |-> IF h \in DOMAIN eng.first THEN eng.first
                            ELSE (h :> info) @@ eng.first],
         hit |-> FALSE]

\* one call: returns the record, the engine afterwards and whether it was a hit
commit_to_info(eng, h) ==
    IF h \in DOMAIN eng.cache
    THEN [info |-> eng.cache[h], eng |-> eng, hit |-> TRUE]
    ELSE LET broken == h \in statsBroken
             info == CommitInfoTable[h][broken]
             n == eng.derivations[h]
         IN  [info |-> info,
              eng |-> [cache |-> (h :> cache_store(info)) @@ eng.cache,
                       derivations |->
                           [eng.derivations EXCEPT
                               ![h] = IF n < MaxDerive THEN n + 1 ELSE n],
                       first |-> IF h \in DOMAIN eng.first THEN eng.first
                                 ELSE (h :> info) @@ eng.first],
              hit |-> FALSE]

\* ------------------------------------------------------------------------
\* GitContextExtractor.search_commits
\* ------------------------------------------------------------------------
RECURSIVE path_score(_, _)

\* a path loop that adds one per matching token instead of one per path
RECURSIVE path_score_per_token(_, _)
path_score_per_token(files, query_words) ==
    IF Len(files) = 0 THEN 0
    ELSE Cardinality({word \in query_words : Contains(word, Lower(files[1]))})
         + path_score_per_token(Tail(files), query_words)

\* for filepath in files: if any(word in filepath.lower() ...): score += 1
path_score(files, query_words) ==
    IF Len(files) = 0 THEN 0
    ELSE (IF \E word \in query_words : Contains(word, Lower(files[1]))
          THEN 1 ELSE 0)
         + path_score(Tail(files), query_words)

\* a score whose haystack is the message alone, without the changed paths
score_message_only(query, h) ==
    LET query_lower == Lower(query)
        query_words == FindallWords(query_lower)
        commit_text == Lower(GitCommits[h].message)
        commit_words == FindallWords(commit_text)
        phrase == IF Contains(query_lower, commit_text) THEN 10 ELSE 0
        word_matches == Cardinality(query_words \cap commit_words)
    IN  phrase + word_matches * 2 + path_score(GitCommits[h].files, query_words)

\* the score of one commit, lines 153-178
score(query, h) ==
    LET query_lower == Lower(query)
        query_words == FindallWords(query_lower)
        commit_text == Lower(GitCommits[h].message \o <<" ">>
                             \o JoinSpace(GitCommits[h].files))
        commit_words == FindallWords(commit_text)
        phrase == IF Contains(query_lower, commit_text) THEN 10 ELSE 0
        word_matches == Cardinality(query_words \cap commit_words)
    IN  phrase + word_matches * 2 + path_score(GitCommits[h].files, query_words)

\* the score is a value of query and commit alone: computed once per pair
ScoreTable ==
    [q \in Queries \cup {EmptyQuery} |-> [h \in Hexshas |-> score(q, h)]]

\* a filter that keeps commits of score 0
is_match_nonneg(sc) == sc >= 0

\* the comparison the scan uses to keep a commit
is_match(sc) == sc > 0

\* a loop guard that lets one commit too many through
scan_stops_late(matching, max_results) == Len(matching) > max_results

\* the loop guard: stop scanning
scan_stops(matching, max_results) == Len(matching) >= max_results

\* the local state of one search_commits call: matching_commits, the engine,
\* and (instrumentation) the score of every commit the loop looked at
NewScan == [matching |-> <<>>, scanned |-> <<>>, eng |-> Engine]

\* the for loop over repo.iter_commits(), from position i
RECURSIVE search_scan(_, _, _, _)
search_scan(i, query, max_results, acc) ==
    IF i > Len(log) \/ scan_stops(acc.matching, max_results)
    THEN [status |-> "ok", acc |-> acc]
    ELSE IF log[i] \in statsBroken
    THEN [status |-> "raise", acc |-> acc]
    ELSE LET sc == ScoreTable[query][log[i]]
             seen == Append(acc.scanned, [hash |-> log[i], score |-> sc])
         IN  IF is_match(sc)
             THEN LET r == commit_to_info(acc.eng, log[i])
                  IN  search_scan(i + 1, query, max_results,
                          [matching |-> Append(acc.matching,
                                               [score |-> sc, info |-> r.info]),
                           scanned |-> seen,
                           eng |-> r.eng])
             ELSE search_scan(i + 1, query, max_results,
                              [acc EXCEPT !.scanned = seen])

\* an ordering that puts a pair before the pairs of equal score
sorts_before_unstable(a, b) == a.score >= b.score

\* where a pair goes in a list already sorted: after every pair it does not beat
sorts_before(a, b) == a.score > b.score

RECURSIVE insert_sorted(_, _)
insert_sorted(sorted, x) ==
    IF Len(sorted) = 0 THEN <<x>>
    ELSE IF sorts_before(x, sorted[1]) THEN <<x>> \o sorted
    ELSE <<sorted[1]>> \o insert_sorted(Tail(sorted), x)

\* list.sort(key=lambda x: x[0], reverse=True): stable, score descending
RECURSIVE sort_by_score(_)
sort_by_score(pairs) ==
    IF Len(pairs) = 0 THEN <<>>
    ELSE insert_sorted(sort_by_score(SubSeq(pairs, 1, Len(pairs) - 1)),
                       pairs[Len(pairs)])

\* ------------------------------------------------------------------------
\* KnowledgeStorage: memories
\* ------------------------------------------------------------------------
\* the arguments callers pass to store_memory; a context is a dict of strings,
\* kept as its sequence of <<key, value>> items
MemoryInputs ==
    { [content |-> <<"u","s","e"," ","r","e","d","i","s"," ",
                     "f","o","r"," ","c","a","c","h","e">>,
       enhanced_content |-> <<>>,
       context |-> <<>>,
       memory_type |-> "decision",
       tags |-> << <<"i","n","f","r","a">> >>],
      [content |-> <<"s","i","z","i","n","g">>,
       enhanced_content |-> << <<"R","e","d","i","s"," ",
                                 "c","l","u","s","t","e","r">> >>,
       context |-> << << <<"b","r","a","n","c","h">>,
                         <<"f","i","x","-","d","o","c","s">> >> >>,
       memory_type |-> "note",
       tags |-> << <<"r","e","d","i","s">>,
                   <<"R","e","d","i","s"," ","D","o","c","s">> >>] }

\* Memory(id=..., created_at=...)
Memory(inp, n) ==
    [id |-> n,
     content |-> inp.content,
     enhanced_content |-> inp.enhanced_content,
     memory_type |-> inp.memory_type,
     context |-> inp.context,
     tags |-> inp.tags,
     created_at |-> n]

\* str(dict) of a dict of strings: {'k': 'v', 'k2': 'v2'}
RECURSIVE DictItemsStr(_)
DictItemsStr(items) ==
    IF Len(items) = 0 THEN <<>>
    ELSE <<"'">> \o items[1][1] \o <<"'", ":", " ", "'">> \o items[1][2] \o <<"'">>
         \o (IF Len(items) = 1 THEN <<>>
             ELSE <<",", " ">> \o DictItemsStr(Tail(items)))

DictStr(items) == <<"{">> \o DictItemsStr(items) \o <<"}">>

\* _load_memories: the cached list, else the file's list ([] when missing)
load_list(cache, file) ==
    IF cache # <<>> THEN cache[1]
    ELSE IF file = <<>> THEN <<>>
    ELSE file[1]

load_memories == load_list(memories_cache, memories_file)

\* the load opens the backing file: nothing cached and the file exists
read_attempted(cache, file) == cache = <<>> /\ file # <<>>

\* a load whose failure to read the file goes unnoticed
read_fails_never(cache, file, fault) == FALSE

\* the except branch of _load_memories and _load_queries is taken
read_fails(cache, file, fault) == fault = "read" /\ read_attempted(cache, file)

\* a tag score that counts the matching tags once
RECURSIVE tag_score(_, _)
tag_score_once(tags, query_lower) ==
    IF \E i \in 1..Len(tags) : Contains(query_lower, Lower(tags[i]))
    THEN 2 ELSE 0

\* for tag in memory.tags: if query_lower in tag.lower(): score += 2
tag_score(tags, query_lower) ==
    IF Len(tags) = 0 THEN 0
    ELSE (IF Contains(query_lower, Lower(tags[1])) THEN 2 ELSE 0)
         + tag_score(Tail(tags), query_lower)

\* the score of one memory, lines 115-133
memory_score(query, memory) ==
    LET query_lower == Lower(query)
        in_content ==
            IF Contains(query_lower, Lower(memory.content)) THEN 5 ELSE 0
        in_enhanced ==
            IF /\ memory.enhanced_content # <<>>
               /\ memory.enhanced_content[1] # <<>>
               /\ Contains(query_lower, Lower(memory.enhanced_content[1]))
            THEN 3 ELSE 0
        in_context ==
            IF Contains(query_lower, Lower(DictStr(memory.context)))
            THEN 1 ELSE 0
    IN  in_content + in_enhanced + tag_score(memory.tags, query_lower) + in_context

\* the score reads the fields the caller gave, not id or created_at:
\* computed once per query and stored input
MemoryScoreTable ==
    [q \in Queries |-> [inp \in MemoryInputs |-> memory_score(q, inp)]]

StoredInput(memory) ==
    [content |-> memory.content,
     enhanced_content |-> memory.enhanced_content,
     context |-> memory.context,
     memory_type |-> memory.memory_type,
     tags |-> memory.tags]

\* the for loop over the memories
RECURSIVE score_memories(_, _)
score_memories(memories, query) ==
    IF Len(memories) = 0 THEN <<>>
    ELSE LET sc == MemoryScoreTable[query][StoredInput(memories[1])]
             rest == score_memories(Tail(memories), query)
         IN  IF sc > 0
             THEN <<[score |-> sc, info |-> memories[1]]>> \o rest
             ELSE rest

\* a slice that keeps the whole list
take_all(seq, n) == seq

\* seq[:n] for n >= 0
Take(seq, n) == SubSeq(seq, 1, IF n < Len(seq) THEN n ELSE Len(seq))

\* the faults one call can meet: none, the read of the backing file fails,
\* the write of the backing file fails
Faults == {"none", "read", "write"}

\* lines 97-105: load, append to the loaded list, save, clear the cache; the
\* loaded list is the cache's own list, so the append is seen through the cache
store_memory(cache, file, memory, fault) ==
    IF read_fails(cache, file, fault)
    THEN [status |-> "StorageError", failed |-> "read",
          cache |-> cache, file |-> file]
    ELSE LET memories == Append(load_list(cache, file), memory)
         IN  IF fault = "write"
             THEN [status |-> "StorageError", failed |-> "write",
                   cache |-> <<memories>>, file |-> file]
             ELSE [status |-> "ok", failed |-> "none",
                   cache |-> <<>>, file |-> <<memories>>]

\* lines 109-140
search_memories(cache, file, query, limit, fault) ==
    IF read_fails(cache, file, fault)
    THEN [status |-> "StorageError", failed |-> "read",
          cache |-> cache, scored |-> <<>>]
    ELSE LET memories == load_list(cache, file)
             sorted == sort_by_score(score_memories(memories, query))
         IN  [status |-> "ok", failed |-> "none",
              cache |-> <<memories>>, scored |-> Take(sorted, limit)]

\* ------------------------------------------------------------------------
\* KnowledgeStorage: queries, explanations, cleanup
\* ------------------------------------------------------------------------
QueriesMax == 1000

\* the arguments callers pass to store_query
QueryInputs ==
    { [question |-> "why redis", response |-> "for the cache", context |-> <<>>] }

\* QueryRecord(id=..., created_at=...)
QueryRecord(inp, n) ==
    [id |-> n,
     question |-> inp.question,
     response |-> inp.response,
     context |-> inp.context,
     created_at |-> n]

\* queries.json as earlier runs of the program left it: k records, stored
\* before this process drew its first id
EarlierQueries(k) ==
    [i \in 1..k |-> QueryRecord(CHOOSE inp \in QueryInputs : TRUE, i - k)]

\* a cap that keeps the oldest records
keep_last_oldest(queries) ==
    IF Len(queries) > QueriesMax
    THEN SubSeq(queries, 1, QueriesMax)
    ELSE queries

\* if len(queries) > 1000: queries = queries[-1000:]
keep_last(queries) ==
    IF Len(queries) > QueriesMax
    THEN SubSeq(queries, Len(queries) - QueriesMax + 1, Len(queries))
    ELSE queries

\* lines 167-178: load, append to the loaded list, cap, save, clear the cache
store_query(cache, file, record, fault) ==
    IF read_fails(cache, file, fault)
    THEN [status |-> "StorageError", cache |-> cache, file |-> file]
    ELSE LET queries == Append(load_list(cache, file), record)
         IN  IF fault = "write"
             THEN [status |-> "StorageError",
                   cache |-> <<queries>>, file |-> file]
             ELSE [status |-> "ok",
                   cache |-> <<>>, file |-> <<keep_last(queries)>>]

\* lines 230-240: keep the queries younger than the cutoff, save when some went
cleanup_old_data(cache, file, cutoff_date) ==
    LET queries == load_list(cache, file)
        filtered_queries ==
            SelectSeq(queries, LAMBDA query : query.created_at > cutoff_date)
    IN  IF Len(filtered_queries) # Len(queries)
        THEN [cache |-> <<>>, file |-> <<filtered_queries>>]
        ELSE [cache |-> <<queries>>, file |-> file]

\* lines 185-193: explanations[filepath] = {...}, saved as a whole
store_explanation(file, filepath, explanation, n) ==
    LET explanations == IF file = <<>> THEN <<>> ELSE file[1]
        entry == [explanation |-> explanation, context |-> <<>>, created_at |-> n]
    IN  << (filepath :> entry) @@ explanations >>

\* ------------------------------------------------------------------------
\* Two KnowledgeStorage instances on one repository
\* ------------------------------------------------------------------------
Instances == {1, 2}

\* self._memories_cache of an instance
cache_of(i) == IF i = 1 THEN memories_cache ELSE peer_cache

\* a save that first merges what the file holds by now
written_merged(file, memories) ==
    LET on_disk == IF file = <<>> THEN <<>> ELSE file[1]
        missing == SelectSeq(on_disk, LAMBDA m : m \notin Range(memories))
    IN  << missing \o memories >>

\* _save_memories: json.dump of the list over the whole file
written(file, memories) == << memories >>

\* ------------------------------------------------------------------------
\* GitContextExtractor.get_repo_stats
\* ------------------------------------------------------------------------
SecondsPerDay == 86400
RecentActivityMax == 20

\* git: what commit.tree.traverse() yields for each commit, in its order
TreeOf ==
    [h \in AllShas |->
        CASE h = ShaA ->
             <<
               [type |-> "blob", a_path |-> <<"R","E","A","D","M","E",".","m","d">>],
               [type |-> "blob", a_path |-> <<"l","o","g","o",".","b","i","n">>],
               [type |-> "tree", a_path |-> <<"s","r","c">>],
               [type |-> "blob", a_path |-> <<"s","r","c","/","c","a","c","h","e",".","p","y">>],
               [type |-> "blob", a_path |-> <<"s","r","c","/","m","a","i","n",".","P","Y">>] >>
          [] h = ShaB ->
             <<
               [type |-> "blob", a_path |-> <<"M","a","k","e","f","i","l","e">>],
               [type |-> "blob", a_path |-> <<"R","E","A","D","M","E",".","m","d">>],
               [type |-> "tree", a_path |-> <<"r","e","d","i","s">>],
               [type |-> "blob", a_path |-> <<"r","e","d","i","s","/","c","o","n","f","i","g",".","p","y">>] >>
          [] h = ShaD -> <<>>
          [] OTHER -> << [type |-> "blob", a_path |-> <<"R","E","A","D","M","E",".","m","d">>] >>]

\* git: repo.branches and repo.active_branch (None: <<>>) as a call finds them
RefStates ==
    { [branches |-> <<>>, active_branch |-> <<"main">>],
      [branches |-> <<"main">>, active_branch |-> <<"main">>],
      [branches |-> <<"main", "dev">>, active_branch |-> <<"dev">>],
      [branches |-> <<"main", "dev">>, active_branch |-> <<>>] }

\* Path(filepath).name
PathName(filepath) ==
    LET slashes == {i \in 1..Len(filepath) : filepath[i] = "/"}
    IN  IF slashes = {} THEN filepath
        ELSE LET k == CHOOSE i \in slashes : \A j \in slashes : j <= i
             IN  SubSeq(filepath, k + 1, Len(filepath))

\* Path(filepath).suffix
Suffix(filepath) ==
    LET name == PathName(filepath)
        dots == {i \in 1..Len(name) : name[i] = "."}
    IN  IF dots = {} THEN <<>>
        ELSE LET k == CHOOSE i \in dots : \A j \in dots : j <= i
             IN  IF 1 < k /\ k < Len(name)
                 THEN SubSeq(name, k, Len(name))
                 ELSE <<>>

language_map ==
    {
      <<<<".","p","y">>, "Python">>,
      <<<<".","j","s">>, "JavaScript">>,
      <<<<".","t","s">>, "TypeScript">>,
      <<<<".","j","a","v","a">>, "Java">>,
      <<<<".","c","p","p">>, "C++">>,
      <<<<".","c","c">>, "C++">>,
      <<<<".","c","x","x">>, "C++">>,
      <<<<".","c">>, "C">>,
      <<<<".","h">>, "C/C++">>,
      <<<<".","g","o">>, "Go">>,
      <<<<".","r","s">>, "Rust">>,
      <<<<".","p","h","p">>, "PHP">>,
      <<<<".","r","b">>, "Ruby">>,
      <<<<".","s","w","i","f","t">>, "Swift">>,
      <<<<".","k","t">>, "Kotlin">>,
      <<<<".","s","c","a","l","a">>, "Scala">>,
      <<<<".","c","s">>, "C#">>,
      <<<<".","h","t","m","l">>, "HTML">>,
      <<<<".","c","s","s">>, "CSS">>,
      <<<<".","s","c","s","s">>, "SCSS">>,
      <<<<".","v","u","e">>, "Vue">>,
      <<<<".","j","s","x">>, "React">>,
      <<<<".","t","s","x">>, "React/TypeScript">>,
      <<<<".","s","q","l">>, "SQL">>,
      <<<<".","s","h">>, "Shell">>,
      <<<<".","y","m","l">>, "YAML">>,
      <<<<".","y","a","m","l">>, "YAML">>,
      <<<<".","j","s","o","n">>, "JSON">>,
      <<<<".","x","m","l">>, "XML">>,
      <<<<".","m","d">>, "Markdown">>,
      <<<<".","d","o","c","k","e","r","f","i","l","e">>, "Docker">> }

\* language_map.get(ext, 'Other')
language_of(ext) ==
    IF \E p \in language_map : p[1] = ext
    THEN (CHOOSE p \in language_map : p[1] = ext)[2]
    ELSE "Other"

\* languages[language] += 1 on a dict that keeps its keys in insertion order
count_language(languages, language) ==
    IF \E i \in 1..Len(languages) : languages[i].language = language
    THEN [i \in 1..Len(languages) |->
             IF languages[i].language = language
             THEN [languages[i] EXCEPT !.count = @ + 1]
             ELSE languages[i]]
    ELSE Append(languages, [language |-> language, count |-> 1])

\* _analyze_languages(filepaths): the loop from position i
RECURSIVE analyze_languages(_, _, _)
analyze_languages(filepaths, i, languages) ==
    IF i > Len(filepaths) THEN languages
    ELSE analyze_languages(filepaths, i + 1,
             count_language(languages, language_of(Lower(Suffix(filepaths[i])))))

\* a maximum that keeps the last of the keys with the greatest count
RECURSIVE max_by_count_last(_, _, _)
max_by_count_last(languages, i, best) ==
    IF i > Len(languages) THEN best
    ELSE max_by_count_last(languages, i + 1,
             IF languages[i].count >= best.count THEN languages[i] ELSE best)

\* max(languages.keys(), key=languages.get): the scan from position i
RECURSIVE max_by_count(_, _, _)
max_by_count(languages, i, best) ==
    IF i > Len(languages) THEN best
    ELSE max_by_count(languages, i + 1,
             IF languages[i].count > best.count THEN languages[i] ELSE best)

\* the try block of the file analysis and its except branch
file_analysis(tree_fails) ==
    IF tree_fails
    THEN [file_count |-> 0, languages |-> <<>>, primary_language |-> <<>>]
    ELSE LET tree == TreeOf[log[1]]
             blobs == SelectSeq(tree, LAMBDA item : item.type = "blob")
             tracked_files == [i \in 1..Len(blobs) |-> blobs[i].a_path]
             languages == analyze_languages(tracked_files, 1, <<>>)
         IN  [file_count |-> Len(tracked_files),
              languages |-> languages,
              primary_language |->
                  IF languages # <<>>
                  THEN << max_by_count(languages, 2, languages[1]).language >>
                  ELSE <<>>]

\* a contributor list that keeps every author email it meets
RECURSIVE contributors_all(_, _, _)
contributors_all(commits, i, seen) ==
    IF i > Len(commits) THEN seen
    ELSE contributors_all(commits, i + 1, Append(seen, GitCommits[commits[i]].email))

\* set(commit.author.email for commit in commits), in the order first met
RECURSIVE contributors(_, _, _)
contributors(commits, i, seen) ==
    IF i > Len(commits) THEN seen
    ELSE LET email == GitCommits[commits[i]].email
         IN  contributors(commits, i + 1,
                 IF email \in Range(seen) THEN seen ELSE Append(seen, email))

\* (newest_commit.committed_date - oldest_commit.committed_date) // 86400
age_days(newest_commit, oldest_commit) ==
    (GitCommits[newest_commit].committed_date
        - GitCommits[oldest_commit].committed_date) \div SecondsPerDay

\* [self._commit_to_info(commit) for commit in commits], from position i
RECURSIVE commits_to_info(_, _, _)
commits_to_info(commits, i, acc) ==
    IF i > Len(commits) THEN acc
    ELSE LET r == commit_to_info(acc.eng, commits[i])
         IN  commits_to_info(commits, i + 1,
                 [infos |-> Append(acc.infos, r.info), eng |-> r.eng])

\* a result that never names the branch
current_branch_unknown(refs) == "unknown"

\* self.repo.active_branch.name if self.repo.active_branch else "unknown"
current_branch(refs) ==
    IF refs.active_branch # <<>> THEN refs.active_branch[1] ELSE "unknown"

\* a file analysis whose failure also loses what the commit log gave
commit_stats_lost(tree_fails, stats) ==
    IF tree_fails
    THEN [stats EXCEPT !.commit_count = 0, !.contributor_count = 0,
                       !.age_days = 0, !.recent_activity = <<>>]
    ELSE stats

\* what the commit log contributes to the result, whatever the file analysis did
commit_stats(tree_fails, stats) == stats

\* one call of get_repo_stats: the RepoStats and the engine afterwards
get_repo_stats(eng, refs, tree_fails) ==
    LET commits == log
    IN  IF commits = <<>>
        THEN [value |-> [commit_count |-> 0, file_count |-> 0,
                         contributor_count |-> 0, age_days |-> 0,
                         primary_language |-> <<>>, languages |-> <<>>,
                         recent_activity |-> <<>>,
                         branch_count |-> Len(refs.branches),
                         current_branch |-> current_branch(refs)],
              eng |-> eng]
        ELSE LET files == file_analysis(tree_fails)
                 recent == commits_to_info(Take(commits, RecentActivityMax), 1,
                                           [infos |-> <<>>, eng |-> eng])
             IN  [value |-> commit_stats(tree_fails,
                        [commit_count |-> Len(commits),
                         file_count |-> files.file_count,
                         contributor_count |-> Len(contributors(commits, 1, <<>>)),
                         age_days |-> age_days(commits[1], commits[Len(commits)]),
                         primary_language |-> files.primary_language,
                         languages |-> files.languages,
                         recent_activity |-> recent.infos,
                         branch_count |-> Len(refs.branches),
                         current_branch |-> current_branch(refs)]),
                  eng |-> recent.eng]

\* ------------------------------------------------------------------------
\* GitContextExtractor.get_file_history
\* ------------------------------------------------------------------------
RecentChangesMax == 10

\* the working tree as one call finds the path: full_path.exists(), stat()
\* and what open() and readlines() give
FsAbsent == [exists |-> FALSE, st_size |-> 0, readable |-> FALSE, lines |-> 0]
FsPresent == [exists |-> TRUE, st_size |-> 120, readable |-> TRUE, lines |-> 7]
FsUnreadable == [exists |-> TRUE, st_size |-> 64, readable |-> FALSE, lines |-> 0]

FsStates == {FsAbsent, FsPresent, FsUnreadable}

FilePaths == {ReadmePath, LogoPath}

text_extensions ==
    {
      <<".","p","y">>, <<".","j","s">>, <<".","t","s">>, <<".","j","a","v","a">>,
      <<".","c","p","p">>, <<".","c">>, <<".","h">>, <<".","g","o">>,
      <<".","r","s">>, <<".","p","h","p">>, <<".","r","b">>, <<".","s","w","i","f","t">>,
      <<".","k","t">>, <<".","s","c","a","l","a">>, <<".","c","s">>, <<".","h","t","m","l">>,
      <<".","c","s","s">>, <<".","s","c","s","s">>, <<".","v","u","e">>, <<".","j","s","x">>,
      <<".","t","s","x">>, <<".","s","q","l">>, <<".","s","h">>, <<".","y","m","l">>,
      <<".","y","a","m","l">>, <<".","j","s","o","n">>, <<".","x","m","l">>, <<".","m","d">>,
      <<".","t","x","t">>, <<".","c","o","n","f">>, <<".","c","f","g">>, <<".","i","n","i">> }

\* a test that takes every file for a text file
is_text_file_any(filepath) == TRUE

\* _is_text_file(filepath)
is_text_file(filepath) == Lower(Suffix(filepath)) \in text_extensions

\* datetime.fromtimestamp(committed_date, tz=timezone.utc)
fromtimestamp_utc(committed_date) == [timestamp |-> committed_date, tz |-> "UTC"]

\* list(self.repo.iter_commits(paths=rel_path)), [] when the query fails
commits_touching(rel_path, log_fails) ==
    IF log_fails THEN <<>>
    ELSE SelectSeq(log, LAMBDA h : rel_path \in Range(GitCommits[h].files))

\* a size that is never read from the working tree
file_size_none(fs) == <<>>

\* full_path.stat().st_size if exists else None
file_size(fs) == IF fs.exists THEN <<fs.st_size>> ELSE <<>>

\* lines 231-238: the line count of a text file that exists and can be read
lines_of_code(filepath, fs) ==
    IF fs.exists /\ is_text_file(filepath) /\ fs.readable
    THEN <<fs.lines>>
    ELSE <<>>

\* a slice that keeps every commit
recent_slice_all(commits) == commits

\* commits[:10]
recent_slice(commits) == Take(commits, RecentChangesMax)

\* a lookup that never finds the path
cached_never(cache, filepath) == FALSE

\* filepath in self._file_cache
cached(cache, filepath) == filepath \in DOMAIN cache

\* one call of get_file_history: the FileHistory, the engine and the file
\* cache afterwards, and whether the cache answered
get_file_history(eng, cache, filepath, fs, log_fails) ==
    IF cached(cache, filepath)
    THEN [value |-> cache[filepath], eng |-> eng, cache |-> cache, hit |-> TRUE]
    ELSE LET commits == commits_touching(filepath, log_fails)
             recent == commits_to_info(recent_slice(commits), 1,
                                       [infos |-> <<>>, eng |-> eng])
             history ==
                 IF commits = <<>>
                 THEN [filepath |-> filepath,
                       exists |-> fs.exists,
                       creation_date |-> <<>>,
                       last_modified |-> <<>>,
                       total_commits |-> 0,
                       authors |-> {},
                       recent_changes |-> <<>>,
                       lines_of_code |-> <<>>,
                       file_size |-> file_size(fs)]
                 ELSE [filepath |-> filepath,
                       exists |-> fs.exists,
                       creation_date |->
                           << fromtimestamp_utc(
                                  GitCommits[commits[Len(commits)]].committed_date) >>,
                       last_modified |->
                           << fromtimestamp_utc(GitCommits[commits[1]].committed_date) >>,
                       total_commits |-> Len(commits),
                       authors |-> Range(contributors(commits, 1, <<>>)),
                       recent_changes |-> recent.infos,
                       lines_of_code |-> lines_of_code(filepath, fs),
                       file_size |-> file_size(fs)]
         IN  [value |-> history,
              eng |-> IF commits = <<>> THEN eng ELSE recent.eng,
              cache |-> (filepath :> history) @@ cache,
              hit |-> FALSE]

\* ------------------------------------------------------------------------
\* GitContextExtractor.find_related_files
\* ------------------------------------------------------------------------
CachePath == <<"s","r","c","/","c","a","c","h","e",".","p","y">>

\* the paths callers ask about
RelatedInputs == {CachePath, LogoPath}

\* git: item.data_stream.read().decode('utf-8', errors='ignore') of a blob
BlobData(path) ==
    CASE path = <<"R","E","A","D","M","E",".","m","d">> ->
               <<"s","e","e"," ","c","a","c","h","e"," ","n","o","t","e","s">>
          [] path = <<"l","o","g","o",".","b","i","n">> ->
               <<"P","N","G">>
          [] path = <<"s","r","c","/","c","a","c","h","e",".","p","y">> ->
               <<"c","a","c","h","e"," ","="," ","{","}">>
          [] path = <<"s","r","c","/","m","a","i","n",".","P","Y">> ->
               <<"i","m","p","o","r","t"," ","c","a","c","h","e">>
          [] path = <<"M","a","k","e","f","i","l","e">> ->
               <<"m","a","k","e"," ","l","o","g","o">>
          [] path = <<"r","e","d","i","s","/","c","o","n","f","i","g",".","p","y">> ->
               <<"f","r","o","m"," ","c","a","c","h","e"," ","i","m","p","o","r","t"," ","t","t","l">>
          [] OTHER -> <<>>

\* the blob whose read fails in one call: none, or one of these
NoPath == <<>>
UnreadableBlobs == {NoPath, ReadmePath, CachePath}

\* Path(filepath).stem
Stem(filepath) ==
    LET name == PathName(filepath)
    IN  SubSeq(name, 1, Len(name) - Len(Suffix(filepath)))

\* a label that only knows the import statement
relation_import_only(file_stem, content) ==
    IF Contains(<<"i","m","p","o","r","t"," ">> \o file_stem, content)
    THEN "imports"
    ELSE "references"

\* lines 307-312: imports when the content has "import <stem>" or
\* "from <stem>", references otherwise
relation(file_stem, content) ==
    IF \/ Contains(<<"i","m","p","o","r","t"," ">> \o file_stem, content)
       \/ Contains(<<"f","r","o","m"," ">> \o file_stem, content)
    THEN "imports"
    ELSE "references"

\* the for loop over the tree items, from position i
RECURSIVE related_scan(_, _, _, _, _, _)
related_scan(items, i, file_stem, limit, unreadable, related) ==
    IF i > Len(items) THEN related
    ELSE LET item == items[i]
             rest(r) == related_scan(items, i + 1, file_stem, limit, unreadable, r)
         IN  IF item.type # "blob" \/ Len(related) >= limit
             THEN rest(related)
             ELSE IF item.a_path = unreadable
             THEN rest(related)
             ELSE LET content == BlobData(item.a_path)
                  IN  IF Contains(file_stem, content)
                      THEN rest(Append(related,
                                       [path |-> item.a_path,
                                        relation |-> relation(file_stem, content)]))
                      ELSE rest(related)

\* find_related_files(filepath, limit); a tree that cannot be walked, as in
\* a repository without commits, ends in the outer except
find_related_files(filepath, limit, unreadable, tree_fails) ==
    IF log = <<>> \/ tree_fails THEN <<>>
    ELSE related_scan(TreeOf[log[1]], 1, Stem(filepath), limit, unreadable, <<>>)

\* ------------------------------------------------------------------------
\* Initial state and actions
\* ------------------------------------------------------------------------
Init ==
    /\ log = <<>>
    /\ statsBroken = {}
    /\ commit_cache = <<>>
    /\ derivations = [h \in AllShas |-> 0]
    /\ first_info = <<>>
    /\ file_cache = <<>>
    /\ memories_file = <<>>
    /\ memories_cache = <<>>
    /\ ticks = 0
    /\ queries_file = <<>>
    /\ queries_cache = <<>>
    /\ explanations_file = <<>>
    /\ peer_cache = <<>>
    /\ in_flight = [i \in Instances |-> <<>>]
    /\ last = [op |-> "init"]

\* the environment: git commit adds a commit in front of the log
GitCommit(h) ==
    /\ h \notin Range(log)
    /\ Cardinality(Range(log) \cap Hexshas) < MaxLog
    /\ log' = <<h>> \o log
    /\ last' = [op |-> "git_commit"]
    /\ UNCHANGED <<statsBroken, commit_cache, derivations, first_info>>
    /\ UNCHANGED storageVars
    /\ UNCHANGED file_cache

\* the environment: the stat computation of a commit starts to fail
StatsBreak(h) ==
    /\ h \in Range(log)
    /\ h \notin statsBroken
    /\ Cardinality(statsBroken) < MaxBroken
    /\ statsBroken' = statsBroken \cup {h}
    /\ last' = [op |-> "stats_break"]
    /\ UNCHANGED <<log, commit_cache, derivations, first_info>>
    /\ UNCHANGED storageVars
    /\ UNCHANGED file_cache

\* the environment: the stat computation of a commit works again
StatsRepair(h) ==
    /\ h \in statsBroken
    /\ statsBroken' = statsBroken \ {h}
    /\ last' = [op |-> "stats_repair"]
    /\ UNCHANGED <<log, commit_cache, derivations, first_info>>
    /\ UNCHANGED storageVars
    /\ UNCHANGED file_cache

\* _commit_to_info(commit) for a commit of the log
CommitToInfo(h) ==
    /\ h \in Range(log)
    /\ LET r == commit_to_info(Engine, h)
       IN  /\ commit_cache' = r.eng.cache
           /\ derivations' = r.eng.derivations
           /\ first_info' = r.eng.first
           /\ last' = [op |-> "_commit_to_info", commit |-> h, status |-> "ok",
                       hit |-> r.hit, broken |-> h \in statsBroken,
                       value |-> r.info]
    /\ UNCHANGED <<log, statsBroken>>
    /\ UNCHANGED storageVars
    /\ UNCHANGED file_cache

\* search_commits(query, max_results)
SearchCommits(query, max_results) ==
    /\ LET r == search_scan(1, query, max_results, NewScan)
           sorted == sort_by_score(r.acc.matching)
           ok == r.status = "ok"
       IN  /\ commit_cache' = r.acc.eng.cache
           /\ derivations' = r.acc.eng.derivations
           /\ first_info' = r.acc.eng.first
           /\ last' = [op |-> "search_commits", query |-> query,
                       max_results |-> max_results, status |-> r.status,
                       again |-> /\ last.op = "search_commits"
                                 /\ last.query = query
                                 /\ last.max_results = max_results,
                       scanned |-> IF ok THEN r.acc.scanned ELSE <<>>,
                       scored |-> IF ok THEN sorted ELSE <<>>,
                       value |-> IF ok
                                 THEN [i \in 1..Len(sorted) |-> sorted[i].info]
                                 ELSE <<>>]
    /\ UNCHANGED <<log, statsBroken>>
    /\ UNCHANGED storageVars
    /\ UNCHANGED file_cache

\* store_memory(content, enhanced_content, context, memory_type, tags)
StoreMemory(inp, fault) ==
    /\ ticks < MaxMemories
    /\ LET memory == Memory(inp, ticks + 1)
           r == store_memory(memories_cache, memories_file, memory, fault)
       IN  /\ memories_file' = r.file
           /\ memories_cache' = r.cache
           /\ ticks' = ticks + 1
           /\ last' = [op |-> "store_memory", status |-> r.status,
                       fault |-> fault,
                       value |-> memory.id]
    /\ UNCHANGED engineVars
    /\ UNCHANGED peerVars
    /\ UNCHANGED <<queries_file, queries_cache, explanations_file>>

\* search_memories(query, limit)
SearchMemories(query, limit, fault) ==
    /\ LET r == search_memories(memories_cache, memories_file, query, limit, fault)
       IN  /\ memories_cache' = r.cache
           /\ last' = [op |-> "search_memories", query |-> query,
                       max_results |-> limit, status |-> r.status,
                       fault |-> fault,
                       scored |-> r.scored,
                       value |-> [i \in 1..Len(r.scored) |-> r.scored[i].info]]
    /\ UNCHANGED <<memories_file, ticks>>
    /\ UNCHANGED engineVars
    /\ UNCHANGED peerVars
    /\ UNCHANGED <<queries_file, queries_cache, explanations_file>>

\* store_query(question, response, context)
StoreQuery(inp, fault) ==
    /\ ticks < MaxMemories
    /\ LET record == QueryRecord(inp, ticks + 1)
           r == store_query(queries_cache, queries_file, record, fault)
       IN  /\ queries_file' = r.file
           /\ queries_cache' = r.cache
           /\ ticks' = ticks + 1
           /\ last' = [op |-> "store_query", status |-> r.status,
                       fault |-> fault, value |-> record.id]
    /\ UNCHANGED engineVars
    /\ UNCHANGED peerVars
    /\ UNCHANGED <<memories_file, memories_cache, explanations_file>>

\* cleanup_old_data(days_to_keep), cutoff_date being now - days_to_keep days
CleanupOldData(cutoff_date) ==
    /\ LET r == cleanup_old_data(queries_cache, queries_file, cutoff_date)
       IN  /\ queries_file' = r.file
           /\ queries_cache' = r.cache
           /\ last' = [op |-> "cleanup_old_data", status |-> "ok",
                       cutoff_date |-> cutoff_date]
    /\ UNCHANGED engineVars
    /\ UNCHANGED peerVars
    /\ UNCHANGED <<memories_file, memories_cache, ticks, explanations_file>>

\* store_explanation(filepath, explanation, context)
StoreExplanation(filepath, explanation) ==
    /\ explanations_file' =
           store_explanation(explanations_file, filepath, explanation, ticks)
    /\ last' = [op |-> "store_explanation", status |-> "ok"]
    /\ UNCHANGED engineVars
    /\ UNCHANGED peerVars
    /\ UNCHANGED <<memories_file, memories_cache, ticks,
                   queries_file, queries_cache>>

\* the environment: the repository comes with the queries.json of earlier
\* runs, one record short of the cap
QueriesFromEarlierRuns ==
    /\ queries_file = <<>>
    /\ queries_cache = <<>>
    /\ ticks = 0
    /\ queries_file' = << EarlierQueries(QueriesMax - 1) >>
    /\ last' = [op |-> "earlier_runs"]
    /\ UNCHANGED engineVars
    /\ UNCHANGED peerVars
    /\ UNCHANGED <<memories_file, memories_cache, ticks,
                   queries_cache, explanations_file>>

\* store_memory of instance i up to its save: lines 85-99, the load and the
\* append to the loaded list, which is the instance's cache
StoreMemoryLoad(i, inp) ==
    /\ ticks < MaxMemories
    /\ in_flight[i] = <<>>
    /\ LET memory == Memory(inp, ticks + 1)
           memories == Append(load_list(cache_of(i), memories_file), memory)
       IN  /\ in_flight' = [in_flight EXCEPT ![i] = <<memories>>]
           /\ IF i = 1
              THEN memories_cache' = <<memories>> /\ UNCHANGED peer_cache
              ELSE peer_cache' = <<memories>> /\ UNCHANGED memories_cache
           /\ ticks' = ticks + 1
           /\ last' = [op |-> "store_memory_load", instance |-> i,
                       value |-> memory.id]
    /\ UNCHANGED engineVars
    /\ UNCHANGED <<memories_file, queries_file, queries_cache, explanations_file>>

\* store_memory of instance i from its save on: lines 100-105
StoreMemorySave(i) ==
    /\ in_flight[i] # <<>>
    /\ LET memories == in_flight[i][1]
       IN  /\ memories_file' = written(memories_file, memories)
           /\ last' = [op |-> "store_memory_save", instance |-> i,
                       status |-> "ok", memories |-> memories,
                       value |-> memories[Len(memories)].id]
    /\ in_flight' = [in_flight EXCEPT ![i] = <<>>]
    /\ IF i = 1
       THEN memories_cache' = <<>> /\ UNCHANGED peer_cache
       ELSE peer_cache' = <<>> /\ UNCHANGED memories_cache
    /\ UNCHANGED engineVars
    /\ UNCHANGED <<ticks, queries_file, queries_cache, explanations_file>>

\* a reading call of instance i (get_recent_memories, get_statistics, ...):
\* _load_memories fills the instance's cache
LoadMemories(i) ==
    /\ in_flight[i] = <<>>
    /\ LET memories == load_list(cache_of(i), memories_file)
       IN  /\ IF i = 1
              THEN memories_cache' = <<memories>> /\ UNCHANGED peer_cache
              ELSE peer_cache' = <<memories>> /\ UNCHANGED memories_cache
           /\ last' = [op |-> "load_memories", instance |-> i,
                       value |-> memories]
    /\ UNCHANGED engineVars
    /\ UNCHANGED <<memories_file, ticks, in_flight,
                   queries_file, queries_cache, explanations_file>>

\* find_related_files(filepath, limit), with the blob reads and the tree
\* walk as this call finds them
FindRelatedFiles(filepath, limit, unreadable, tree_fails) ==
    /\ last' = [op |-> "find_related_files", status |-> "ok",
                filepath |-> filepath, max_results |-> limit,
                unreadable |-> unreadable, tree_fails |-> tree_fails,
                value |-> find_related_files(filepath, limit, unreadable, tree_fails)]
    /\ UNCHANGED engineVars
    /\ UNCHANGED storageVars

\* get_repo_stats(), with the refs and the tree walk as this call finds them
GetRepoStats(refs, tree_fails) ==
    /\ log = <<>> => refs.branches = <<>> /\ refs.active_branch # <<>>
    /\ log # <<>> => refs.branches # <<>>
    /\ LET r == get_repo_stats(Engine, refs, tree_fails)
       IN  /\ commit_cache' = r.eng.cache
           /\ derivations' = r.eng.derivations
           /\ first_info' = r.eng.first
           /\ last' = [op |-> "get_repo_stats", status |-> "ok",
                       refs |-> refs, tree_fails |-> tree_fails,
                       value |-> r.value]
    /\ UNCHANGED <<log, statsBroken>>
    /\ UNCHANGED storageVars
    /\ UNCHANGED file_cache

\* the environment: git pull brings a run of commits in front of the log
GitPull ==
    /\ Range(log) \cap BulkShas = {}
    /\ log' = [i \in 1..BulkSize |-> BulkSha(BulkSize + 1 - i)] \o log
    /\ last' = [op |-> "git_pull"]
    /\ UNCHANGED <<statsBroken, commit_cache, derivations, first_info>>
    /\ UNCHANGED storageVars
    /\ UNCHANGED file_cache

\* get_file_history(filepath), with the working tree and the log query as
\* this call finds them
GetFileHistory(filepath, fs, log_fails) ==
    /\ LET r == get_file_history(Engine, file_cache, filepath, fs, log_fails)
       IN  /\ commit_cache' = r.eng.cache
           /\ derivations' = r.eng.derivations
           /\ first_info' = r.eng.first
           /\ file_cache' = r.cache
           /\ last' = [op |-> "get_file_history", status |-> "ok",
                       filepath |-> filepath, fs |-> fs,
                       log_fails |-> log_fails, hit |-> r.hit,
                       value |-> r.value]
    /\ UNCHANGED <<log, statsBroken>>
    /\ UNCHANGED storageVars

\* the engine alone
Next ==
    \/ \E h \in Hexshas : GitCommit(h)
    \/ \E h \in Hexshas : StatsBreak(h)
    \/ \E h \in Hexshas : StatsRepair(h)
    \/ \E h \in Hexshas : CommitToInfo(h)
    \/ \E q \in Queries : \E n \in 0..MaxResults : SearchCommits(q, n)

Spec == Init /\ [][Next]_vars

\* the two searches side by side: the engine and the memory store of one
\* repository, with working commit stats and a readable memories file
NextSearch ==
    \/ \E h \in Hexshas : GitCommit(h)
    \/ \E q \in Queries : \E n \in 0..MaxResults : SearchCommits(q, n)
    \/ \E inp \in MemoryInputs : StoreMemory(inp, "none")
    \/ \E q \in Queries : \E n \in 0..MaxResults : SearchMemories(q, n, "none")

SpecSearch == Init /\ [][NextSearch]_vars

\* the repository statistics of a growing log
NextStats ==
    \/ \E h \in Hexshas : GitCommit(h)
    \/ \E h \in Hexshas : StatsBreak(h)
    \/ \E h \in Hexshas : StatsRepair(h)
    \/ \E refs \in RefStates : \E tree_fails \in BOOLEAN : GetRepoStats(refs, tree_fails)

SpecStats == Init /\ [][NextStats]_vars

\* the history of the files of a growing log, with a working tree that
\* changes between the calls
NextHistory ==
    \/ \E h \in Hexshas : GitCommit(h)
    \/ \E p \in FilePaths : \E fs \in FsStates : \E log_fails \in BOOLEAN :
           GetFileHistory(p, fs, log_fails)

SpecHistory == Init /\ [][NextHistory]_vars

\* the history of one file that many commits touched
NextPull ==
    \/ \E h \in Hexshas : GitCommit(h)
    \/ GitPull
    \/ GetFileHistory(ReadmePath, FsPresent, FALSE)

SpecPull == Init /\ [][NextPull]_vars

\* one KnowledgeStorage on a backing store that works
NextMemories ==
    \/ \E inp \in MemoryInputs : StoreMemory(inp, "none")
    \/ \E q \in Queries : \E n \in 0..MaxResults : SearchMemories(q, n, "none")
    \/ \E inp \in QueryInputs : StoreQuery(inp, "none")
    \/ CleanupOldData(1)

SpecMemories == Init /\ [][NextMemories]_vars

\* one KnowledgeStorage with a backing store that can fail
NextStore ==
    \/ \E inp \in MemoryInputs : \E fault \in Faults : StoreMemory(inp, fault)
    \/ \E fault \in {"none", "read"} : SearchMemories(<<"r","e","d","i","s">>, MaxResults, fault)
    \/ \E inp \in QueryInputs : \E fault \in Faults : StoreQuery(inp, fault)
    \/ \E cutoff_date \in {0 - QueriesMax, 0, 1} : CleanupOldData(cutoff_date)
    \/ StoreExplanation(ReadmePath, "overview")
    \/ QueriesFromEarlierRuns

SpecStore == Init /\ [][NextStore]_vars

\* two instances whose loads and saves interleave
NextTwo ==
    \/ \E i \in Instances : \E inp \in MemoryInputs : StoreMemoryLoad(i, inp)
    \/ \E i \in Instances : StoreMemorySave(i)
    \/ \E i \in Instances : LoadMemories(i)

SpecTwo == Init /\ [][NextTwo]_vars

\* the related files of a growing log
NextRelated ==
    \/ \E h \in Hexshas : GitCommit(h)
    \/ \E p \in RelatedInputs : \E n \in 0..MaxResults :
       \E unreadable \in UnreadableBlobs : \E tree_fails \in BOOLEAN :
           FindRelatedFiles(p, n, unreadable, tree_fails)

SpecRelated == Init /\ [][NextRelated]_vars

\* searches with the empty query
NextEmpty ==
    \/ \E h \in Hexshas : GitCommit(h)
    \/ \E h \in Hexshas : StatsBreak(h)
    \/ \E h \in Hexshas : StatsRepair(h)
    \/ \E n \in 0..MaxResults : SearchCommits(EmptyQuery, n)

SpecEmpty == Init /\ [][NextEmpty]_vars

TypeOK ==
    /\ Range(log) \subseteq AllShas
    /\ statsBroken \subseteq Range(log)
    /\ DOMAIN commit_cache \subseteq Range(log)

\* ------------------------------------------------------------------------
\* Properties of search_commits
\* ------------------------------------------------------------------------
QRedis == <<"r","e","d","i","s">>
QRedisDocs == <<"R","e","d","i","s"," ","D","o","c","s">>

SearchOk == last.op = "search_commits" /\ last.status = "ok"

Hashes(infos) == [i \in 1..Len(infos) |-> infos[i].hash]

LogPos(h) == CHOOSE i \in 1..Len(log) : log[i] = h

Min(a, b) == IF a <= b THEN a ELSE b

\* the score as the specification words it: 10 for the phrase, 2 per shared
\* token, 1 per changed path that contains some query token
StatedScore(q, h) ==
    LET ql == Lower(q)
        files == GitCommits[h].files
        hay == Lower(GitCommits[h].message \o <<" ">> \o JoinSpace(files))
        qt == FindallWords(ql)
        ht == FindallWords(hay)
    IN  (IF Contains(ql, hay) THEN 10 ELSE 0)
        + 2 * Cardinality({t \in qt : t \in ht})
        + Cardinality({i \in 1..Len(files) :
                          \E t \in qt : Contains(t, Lower(files[i]))})

\* a ranks before b: higher score, or equal score and earlier in the log
RanksBefore(q, a, b) ==
    \/ StatedScore(q, a) > StatedScore(q, b)
    \/ StatedScore(q, a) = StatedScore(q, b) /\ LogPos(a) < LogPos(b)

\* the n best positively scored commits of the whole log, best first
BestOfLog(q, n) ==
    LET pos == {h \in Range(log) : StatedScore(q, h) > 0}
    IN  [i \in 1..Min(n, Cardinality(pos)) |->
            CHOOSE h \in pos :
                Cardinality({g \in pos : RanksBefore(q, g, h)}) = i - 1]

\* C1: for max_results >= 1 the result is the max_results highest-scoring
\* positively scored commits of the whole log (full scan, then truncation).
C1_FullScan ==
    (SearchOk /\ last.max_results >= 1)
        => Hashes(last.value) = BestOfLog(last.query, last.max_results)

\* C2 (as stated): for query "redis" and max_results >= 2, commit A
\* ("fix redis timeout") is returned strictly before commit B ("update docs",
\* touching redis/config.py).
C2_AFirst ==
    (SearchOk /\ last.query = QRedis /\ last.max_results >= 2
        /\ Range(log) = {ShaA, ShaB})
        => \E i, j \in 1..Len(last.value) :
              /\ i < j
              /\ last.value[i].hash = ShaA
              /\ last.value[j].hash = ShaB

\* C2 (amended): for query "redis" and max_results >= 2, B is returned
\* strictly before A whenever both are returned, and on the log of exactly A
\* and B the result is B then A, whatever their order in the log.
C2_BFirst ==
    (SearchOk /\ last.query = QRedis /\ last.max_results >= 2)
        => /\ \A i, j \in 1..Len(last.value) :
                (last.value[i].hash = ShaB /\ last.value[j].hash = ShaA) => i < j
           /\ Range(log) = {ShaA, ShaB} => Hashes(last.value) = <<ShaB, ShaA>>

C2_Witness ==
    /\ SearchOk /\ last.query = QRedis /\ last.max_results >= 2
    /\ log = <<ShaA, ShaB>>
    /\ Hashes(last.value) = <<ShaB, ShaA>>

\* C3: the score the scan gives each commit it looks at is the stated sum
\* 10 (phrase) + 2 per shared token + 1 per matching path.
C3_ScoreIsSum ==
    SearchOk =>
        /\ \A i \in 1..Len(last.scanned) :
              last.scanned[i].score
                  = StatedScore(last.query, last.scanned[i].hash)
        /\ \A i \in 1..Len(last.scored) :
              last.scored[i].score
                  = StatedScore(last.query, last.scored[i].info.hash)

\* a path that holds two query tokens counts once: "docs/redis_notes.md"
C3_Witness ==
    /\ SearchOk /\ last.query = QRedisDocs
    /\ \E i \in 1..Len(last.scanned) :
          last.scanned[i].hash = ShaD /\ last.scanned[i].score = 5

\* C4: the result is ordered by score descending, and entries of equal score
\* keep their order of the log.
C4_SortedStable ==
    SearchOk =>
        \A i, j \in 1..Len(last.scored) :
            i < j =>
                \/ last.scored[i].score > last.scored[j].score
                \/ /\ last.scored[i].score = last.scored[j].score
                   /\ LogPos(last.scored[i].info.hash)
                          < LogPos(last.scored[j].info.hash)

C4_Witness ==
    /\ SearchOk /\ Len(last.scored) = 2
    /\ last.scored[1].score = last.scored[2].score

\* C5: every returned commit has a score greater than 0 for the query.
C5_NoZeroScore ==
    SearchOk =>
        \A i \in 1..Len(last.value) :
            /\ StatedScore(last.query, last.value[i].hash) > 0
            /\ last.scored[i].score > 0

C5_Witness ==
    /\ SearchOk /\ Len(last.value) >= 1
    /\ \E i \in 1..Len(last.scanned) : last.scanned[i].score = 0

\* C6: search_commits and search_memories return at most the requested
\* maximum of entries, and for a maximum of 0 they return the empty sequence
\* without raising.
C6_AtMostMax ==
    (last.op \in {"search_commits", "search_memories"}) =>
        /\ last.status = "ok" => Len(last.value) <= last.max_results
        /\ last.max_results = 0 => (last.status = "ok" /\ last.value = <<>>)

\* a limit of 0 on a store that holds a memory matching the query
C6_Witness ==
    /\ last.op = "search_memories" /\ last.max_results = 0
    /\ last.status = "ok" /\ last.value = <<>>
    /\ memories_cache # <<>>
    /\ \E i \in 1..Len(memories_cache[1]) :
          memory_score(last.query, memories_cache[1][i]) > 0

\* the same boundary of search_commits while commit stats fail: with a maximum
\* of 0 the loop stops before it reads any stats
SearchZeroWithBrokenStats ==
    (last.op = "search_commits" /\ last.max_results = 0)
        => (last.status = "ok" /\ last.value = <<>>)

\* C7: search_commits does not propagate the failure of a commit's diff
\* statistics: it still returns a result.
C7_NoPropagation ==
    (last.op = "search_commits" /\ statsBroken # {}) => last.status = "ok"

\* ------------------------------------------------------------------------
\* Properties of _commit_to_info and the commit cache
\* ------------------------------------------------------------------------
\* C8: every _commit_to_info call returns the record the first call for that
\* id returned, and the stats of an id are derived at most once.
C8_CacheIdempotent ==
    /\ last.op = "_commit_to_info" => last.value = first_info[last.commit]
    /\ SearchOk =>
          \A i \in 1..Len(last.value) :
              last.value[i] = first_info[last.value[i].hash]
    /\ \A h \in Hexshas : derivations[h] <= 1

\* a hit on a record built while the stats worked, taken while they fail
C8_Witness ==
    /\ last.op = "_commit_to_info" /\ last.hit /\ last.broken
    /\ last.value.files_changed # <<>>
    /\ derivations[last.commit] = 1

\* C9: when the stats of a commit cannot be computed, _commit_to_info returns
\* a record with no files, 0 insertions, 0 deletions and the commit's fields.
C9_StatsFallback ==
    (last.op = "_commit_to_info" /\ ~last.hit /\ last.broken) =>
        /\ last.status = "ok"
        /\ last.value.files_changed = <<>>
        /\ last.value.insertions = 0
        /\ last.value.deletions = 0
        /\ last.value.hash = last.commit
        /\ last.value.short_hash = SubSeq(last.commit, 1, 8)
        /\ last.value.message = Strip(GitCommits[last.commit].message)
        /\ last.value.author = GitCommits[last.commit].author
        /\ last.value.email = GitCommits[last.commit].email
        /\ last.value.date.timestamp = GitCommits[last.commit].committed_date

C9_Witness ==
    /\ last.op = "_commit_to_info" /\ ~last.hit /\ last.broken
    /\ GitCommits[last.commit].files # <<>>

\* C10: a search_commits call that directly follows a call with the same
\* query and max_results returns the same ordered output.
C10_SearchIdempotent ==
    [][(last'.op = "search_commits" /\ last'.again)
          => (last'.status = last.status /\ last'.value = last.value)]_vars

\* a second call, every record of which was in the cache when it ran
C10_Witness ==
    /\ SearchOk /\ last.again
    /\ Len(last.value) >= 2
    /\ \A i \in 1..Len(last.value) : derivations[last.value[i].hash] = 1

\* ------------------------------------------------------------------------
\* get_repo_stats
\* ------------------------------------------------------------------------
StatsCall == last.op = "get_repo_stats"

Emails(commits) == {GitCommits[commits[i]].email : i \in 1..Len(commits)}

\* the blobs of the HEAD tree, in traversal order
HeadBlobs ==
    SelectSeq(TreeOf[log[1]], LAMBDA item : item.type = "blob")

BlobLanguage(i) == language_of(Lower(Suffix(HeadBlobs[i].a_path)))

RECURSIVE SumCounts(_)
SumCounts(languages) ==
    IF languages = <<>> THEN 0
    ELSE languages[1].count + SumCounts(Tail(languages))

CountOf(languages, language) ==
    IF \E i \in 1..Len(languages) : languages[i].language = language
    THEN (CHOOSE x \in Range(languages) : x.language = language).count
    ELSE 0

FirstBlobOf(language) ==
    CHOOSE i \in 1..Len(HeadBlobs) :
        /\ BlobLanguage(i) = language
        /\ \A j \in 1..(i - 1) : BlobLanguage(j) # language

C12_TreeFailureKeepsCommitStats ==
    (StatsCall /\ log # <<>> /\ last.tree_fails) =>
        /\ last.status = "ok"
        /\ last.value.file_count = 0
        /\ last.value.languages = <<>>
        /\ last.value.primary_language = <<>>
        /\ last.value.commit_count = Len(log)
        /\ last.value.contributor_count = Cardinality(Emails(log))
        /\ last.value.age_days =
               (GitCommits[log[1]].committed_date
                  - GitCommits[log[Len(log)]].committed_date) \div SecondsPerDay
        /\ Hashes(last.value.recent_activity) = log

C12_Witness ==
    /\ StatsCall /\ last.tree_fails
    /\ Len(log) = 2
    /\ Len(last.value.recent_activity) = 2
    /\ TreeOf[log[1]] # <<>>

\* C13: age_days is the time of the first commit of the log minus the time
\* of its last commit, floor-divided by 86400; it is 0 for a log of one
\* commit and it is never negative, whatever the order of the timestamps.
C13_AgeNeverNegative ==
    (StatsCall /\ log # <<>>) =>
        /\ last.value.age_days =
               (GitCommits[log[1]].committed_date
                  - GitCommits[log[Len(log)]].committed_date) \div SecondsPerDay
        /\ Len(log) = 1 => last.value.age_days = 0
        /\ last.value.age_days >= 0

\* C14: commit_count is the number of commits of the log, contributor_count
\* the number of distinct author emails among them, so that on a non-empty
\* log 1 <= contributor_count <= commit_count.
C14_Counts ==
    (StatsCall /\ log # <<>>) =>
        /\ last.value.commit_count = Len(log)
        /\ last.value.contributor_count = Cardinality(Emails(log))
        /\ 1 <= last.value.contributor_count
        /\ last.value.contributor_count <= last.value.commit_count

C14_Witness ==
    /\ StatsCall
    /\ Range(log) = {ShaA, ShaD}
    /\ last.value.contributor_count = 1
    /\ last.value.commit_count = 2

HistoryCall == last.op = "get_file_history"

\* a call that the cache did not answer
HistoryBuilt == HistoryCall /\ ~last.hit

\* the commits of the log that touch the path, newest first
Touching(filepath) ==
    SelectSeq(log, LAMBDA h : \E i \in 1..Len(GitCommits[h].files) :
                                  GitCommits[h].files[i] = filepath)

\* C16: in every FileHistory that has both dates, creation_date is not later
\* than last_modified, whatever the order of the timestamps along the log.
C16_CreationNotAfterModified ==
    (HistoryCall /\ last.value.creation_date # <<>>
                 /\ last.value.last_modified # <<>>) =>
        last.value.creation_date[1].timestamp
            <= last.value.last_modified[1].timestamp

\* C17: for a path that no commit of the log touches, or when the log query
\* fails, a call that builds the history returns without raising: no
\* commits, no dates, no authors, no recent changes, and exists and
\* file_size as the working tree has them.
C17_NoCommits ==
    (HistoryBuilt /\ (last.log_fails \/ Touching(last.filepath) = <<>>)) =>
        /\ last.status = "ok"
        /\ last.value.total_commits = 0
        /\ last.value.creation_date = <<>>
        /\ last.value.last_modified = <<>>
        /\ last.value.authors = {}
        /\ last.value.recent_changes = <<>>
        /\ last.value.exists = last.fs.exists
        /\ last.value.file_size =
               IF last.fs.exists THEN <<last.fs.st_size>> ELSE <<>>

C17_Witness ==
    /\ HistoryBuilt /\ last.log_fails
    /\ Touching(last.filepath) # <<>>
    /\ last.value.total_commits = 0
    /\ last.value.exists
    /\ last.value.file_size = <<120>>

\* C18: for a path that n >= 1 commits of the log touch, a call that builds
\* the history returns total_commits = n, the time of the last touching
\* commit as creation_date, the time of the first as last_modified, the
\* author emails of all n without duplicates, and the first min(10, n)
\* touching commits, newest first, as recent_changes.
C18_History ==
    (HistoryBuilt /\ ~last.log_fails /\ Touching(last.filepath) # <<>>) =>
        LET commits == Touching(last.filepath)
            n == Len(commits)
        IN  /\ last.value.total_commits = n
            /\ last.value.creation_date =
                   << [timestamp |-> GitCommits[commits[n]].committed_date,
                       tz |-> "UTC"] >>
            /\ last.value.last_modified =
                   << [timestamp |-> GitCommits[commits[1]].committed_date,
                       tz |-> "UTC"] >>
            /\ last.value.authors = Emails(commits)
            /\ Hashes(last.value.recent_changes) =
                   SubSeq(commits, 1, Min(RecentChangesMax, n))

C18_Witness ==
    /\ HistoryBuilt
    /\ last.value.total_commits > RecentChangesMax
    /\ Len(last.value.recent_changes) = RecentChangesMax
    /\ Cardinality(last.value.authors) = 2
    /\ last.value.recent_changes[1].hash = ShaA

\* C19: lines_of_code is present only in a history of a file that exists
\* and whose extension is in the text whitelist; a file that cannot be read
\* gives a history without lines_of_code, not an error.
C19_LinesOfCode ==
    HistoryCall =>
        /\ last.value.lines_of_code # <<>> =>
               /\ last.value.exists
               /\ Lower(Suffix(last.filepath)) \in text_extensions
        /\ Lower(Suffix(last.filepath)) \notin text_extensions =>
               last.value.lines_of_code = <<>>
        /\ (~last.hit /\ ~last.fs.readable) =>
               /\ last.status = "ok"
               /\ last.value.lines_of_code = <<>>

C19_Witness ==
    /\ HistoryBuilt
    /\ last.filepath = LogoPath
    /\ last.fs = FsPresent
    /\ last.value.total_commits = 1
    /\ last.value.lines_of_code = <<>>

\* C20: a FileHistory stays in the cache as it was first built: every later
\* call for the path returns that value, without building commit records or
\* looking at the log and the working tree, whatever they have become.
C20_CachedForLifetime ==
    [][ /\ \A p \in DOMAIN file_cache :
               p \in DOMAIN file_cache' /\ file_cache'[p] = file_cache[p]
        /\ (last'.op = "get_file_history"
              /\ last'.filepath \in DOMAIN file_cache) =>
               /\ last'.hit
               /\ last'.value = file_cache[last'.filepath]
               /\ UNCHANGED <<commit_cache, derivations>>
        /\ (last'.op = "get_file_history") =>
               last'.value = file_cache'[last'.filepath] ]_vars

C20_Witness ==
    /\ HistoryCall /\ last.hit
    /\ last.value.exists /\ ~last.fs.exists
    /\ last.value.total_commits = 1
    /\ Len(Touching(last.filepath)) = 2

\* ------------------------------------------------------------------------
\* KnowledgeStorage
\* ------------------------------------------------------------------------
MemorySearchOk == last.op = "search_memories" /\ last.status = "ok"

\* the memories of the backing file
StoredMemories == IF memories_file = <<>> THEN <<>> ELSE memories_file[1]

StatedMemoryScore(query, memory) ==
    LET q == Lower(query)
    IN  (IF Contains(q, Lower(memory.content)) THEN 5 ELSE 0)
      + (IF memory.enhanced_content # <<>>
            /\ Contains(q, Lower(memory.enhanced_content[1]))
         THEN 3 ELSE 0)
      + 2 * Cardinality({i \in 1..Len(memory.tags) :
                            Contains(q, Lower(memory.tags[i]))})
      + (IF Contains(q, Lower(DictStr(memory.context))) THEN 1 ELSE 0)

MemoryPos(memory) ==
    CHOOSE i \in 1..Len(StoredMemories) : StoredMemories[i] = memory

\* C21: the score of every memory search_memories returns is 5 for the
\* content, 3 for the enhanced content, 2 for each tag and 1 for the context
\* rendering that contain the lower-cased query.
C21_MemoryScoreIsSum ==
    MemorySearchOk =>
        \A i \in 1..Len(last.scored) :
            last.scored[i].score =
                StatedMemoryScore(last.query, last.scored[i].info)

C21_Witness ==
    /\ MemorySearchOk
    /\ last.query = QRedisDocs
    /\ Len(last.scored) = 1
    /\ last.scored[1].score = 2
    /\ ~Contains(Lower(QRedisDocs), Lower(last.scored[1].info.content))

\* C22: search_memories returns the first limit of the stored memories of
\* positive score, highest score first and equal scores in insertion order;
\* no memory of score 0 is returned and an empty store gives nothing.
C22_TopOfPositive ==
    MemorySearchOk =>
        LET positive ==
                SelectSeq(StoredMemories,
                          LAMBDA m : StatedMemoryScore(last.query, m) > 0)
            result == last.value
            before(a, b) ==
                \/ StatedMemoryScore(last.query, a) > StatedMemoryScore(last.query, b)
                \/ /\ StatedMemoryScore(last.query, a) = StatedMemoryScore(last.query, b)
                   /\ MemoryPos(a) < MemoryPos(b)
        IN  /\ Len(result) = Min(last.max_results, Len(positive))
            /\ \A i \in 1..Len(result) :
                   /\ result[i] \in Range(positive)
                   /\ \A j \in (i + 1)..Len(result) : before(result[i], result[j])
                   /\ \A m \in Range(positive) \ Range(result) : before(result[i], m)

C22_Witness ==
    /\ MemorySearchOk
    /\ Len(StoredMemories) = 2
    /\ last.max_results = 1
    /\ Len(last.value) = 1
    /\ last.value[1] = StoredMemories[1]
    /\ StatedMemoryScore(last.query, StoredMemories[2])
           = StatedMemoryScore(last.query, StoredMemories[1])

\* the queries of the backing file
StoredQueries == IF queries_file = <<>> THEN <<>> ELSE queries_file[1]

\* C23: the memories of the store only grow at the end: every step keeps
\* the stored memories unchanged and in place, a store_memory that returns
\* adds exactly its own memory behind them, and no other step adds any.
C23_AppendOnly ==
    [][ /\ Len(StoredMemories') >= Len(StoredMemories)
        /\ SubSeq(StoredMemories', 1, Len(StoredMemories)) = StoredMemories
        /\ IF last'.op = "store_memory" /\ last'.status = "ok"
           THEN /\ Len(StoredMemories') = Len(StoredMemories) + 1
                /\ StoredMemories'[Len(StoredMemories')].id = last'.value
           ELSE StoredMemories' = StoredMemories ]_vars

\* C24: when the read or the write of a backing file fails in store_memory,
\* search_memories or store_query, the call ends in StorageError.
C24_FailureSurfaces ==
    [][ /\ ( /\ last'.op \in {"store_memory", "search_memories"}
             /\ last'.fault = "read"
             /\ memories_cache = <<>> /\ memories_file # <<>> )
           => last'.status = "StorageError"
        /\ ( /\ last'.op = "store_query"
             /\ last'.fault = "read"
             /\ queries_cache = <<>> /\ queries_file # <<>> )
           => last'.status = "StorageError"
        /\ ( /\ last'.op \in {"store_memory", "store_query"}
             /\ last'.fault = "write" )
           => last'.status = "StorageError"
        /\ ( /\ last'.op = "search_memories"
             /\ last'.status = "StorageError" )
           => last'.value = <<>> ]_vars

C24_Witness ==
    /\ last.op = "search_memories"
    /\ last.fault = "read"
    /\ last.status = "StorageError"
    /\ memories_cache = <<>>
    /\ Len(StoredMemories) = 1

\* C28: the stored queries never exceed 1000; a store_query that returns
\* leaves its record last, the records in the order they were stored, and
\* every record it dropped is older than every record it kept.
C28_LastThousand ==
    [][ /\ Len(StoredQueries') <= QueriesMax
        /\ (last'.op = "store_query" /\ last'.status = "ok") =>
               LET new == StoredQueries'
               IN  /\ new # <<>>
                   /\ new[Len(new)].id = last'.value
                   /\ \A i \in 1..(Len(new) - 1) : new[i].id < new[i + 1].id
                   /\ \A r \in Range(StoredQueries) \ Range(new) :
                          r.id < new[1].id ]_vars

C28_Witness ==
    /\ last.op = "store_query" /\ last.status = "ok"
    /\ Len(StoredQueries) = QueriesMax
    /\ StoredQueries[1].id = 3 - QueriesMax
    /\ StoredQueries[QueriesMax].id = 2

\* C29: the memories cache holds only memories of the backing file, and
\* search_memories returns only such memories, also after a store_memory
\* whose write failed.
C29_CacheOnlyPersisted ==
    /\ memories_cache # <<>> =>
           Range(memories_cache[1]) \subseteq Range(StoredMemories)
    /\ MemorySearchOk => Range(last.value) \subseteq Range(StoredMemories)

\* C25: a save writes the saving instance's own list over the whole file:
\* what the instance loaded and its new memory, and nothing of what another
\* instance wrote since that load.
C25_LastWriterWins ==
    [][ last'.op = "store_memory_save" =>
            /\ StoredMemories' = in_flight[last'.instance][1]
            /\ \A m \in Range(StoredMemories) :
                   m \notin Range(in_flight[last'.instance][1]) =>
                       m \notin Range(StoredMemories') ]_vars

\* both store_memory calls have returned and the file holds one memory
C25_Witness ==
    /\ last.op = "store_memory_save"
    /\ ticks = 2
    /\ \A i \in Instances : in_flight[i] = <<>>
    /\ Len(StoredMemories) = 1

\* ------------------------------------------------------------------------
\* find_related_files
\* ------------------------------------------------------------------------
RelatedCall == last.op = "find_related_files"

\* C26: when the tree can be walked, find_related_files returns the first
\* limit blobs, in traversal order, that can be read and whose content
\* contains the stem of the path, each once, labelled imports when the
\* content has "import <stem>" or "from <stem>" and references otherwise.
C26_RelatedFiles ==
    (RelatedCall /\ log # <<>> /\ ~last.tree_fails) =>
        LET stem == Stem(last.filepath)
            matching ==
                SelectSeq(HeadBlobs,
                          LAMBDA item : /\ item.a_path # last.unreadable
                                        /\ Contains(stem, BlobData(item.a_path)))
            n == Min(last.max_results, Len(matching))
            result == last.value
        IN  /\ last.status = "ok"
            /\ Len(result) = n
            /\ Len(result) <= last.max_results
            /\ \A i \in 1..n :
                   /\ result[i].path = matching[i].a_path
                   /\ result[i].relation =
                        IF \/ Contains(<<"i","m","p","o","r","t"," ">> \o stem,
                                       BlobData(result[i].path))
                           \/ Contains(<<"f","r","o","m"," ">> \o stem,
                                       BlobData(result[i].path))
                        THEN "imports" ELSE "references"
            /\ \A i \in 1..n : \A j \in 1..n :
                   result[i].path = result[j].path => i = j

\* the first blob cannot be read, the scan goes on and stops at the limit
C26_Witness ==
    /\ RelatedCall /\ ~last.tree_fails
    /\ log # <<>> /\ log[1] = ShaA
    /\ last.filepath = CachePath
    /\ last.unreadable = ReadmePath
    /\ last.max_results = 2
    /\ Len(last.value) = 2
    /\ last.value[1].relation = "references"
    /\ last.value[2].relation = "imports"

\* ------------------------------------------------------------------------
\* the commit cache; the empty query
\* ------------------------------------------------------------------------
\* C27: every key of the commit cache maps to a record with that hash and
\* its first 8 characters as short hash, and a step neither removes a key
\* nor changes the record of one.
C27_CacheOnlyGrows ==
    [][ /\ \A k \in DOMAIN commit_cache' :
               /\ commit_cache'[k].hash = k
               /\ commit_cache'[k].short_hash = SubSeq(k, 1, 8)
        /\ \A k \in DOMAIN commit_cache :
               /\ k \in DOMAIN commit_cache'
               /\ commit_cache'[k] = commit_cache[k] ]_vars

\* two records are cached and one is kept although the stats have changed
C27_Witness ==
    /\ Cardinality(DOMAIN commit_cache) = 2
    /\ \E k \in DOMAIN commit_cache :
           LET broken == k \in statsBroken
           IN  commit_cache[k] # CommitInfoTable[k][broken]

\* C30: for the empty query every commit scores 10 and a search that
\* returns gives the first max_results commits of the log, in log order.
C30_EmptyQuery ==
    /\ \A h \in Range(log) : ScoreTable[EmptyQuery][h] = 10
    /\ (SearchOk /\ last.query = EmptyQuery) =>
           /\ \A i \in 1..Len(last.scored) : last.scored[i].score = 10
           /\ Hashes(last.value) =
                  SubSeq(log, 1, Min(last.max_results, Len(log)))

C30_Witness ==
    /\ SearchOk /\ last.query = EmptyQuery
    /\ Len(log) = 2
    /\ last.max_results = 1
    /\ Hashes(last.value) = <<log[1]>>
    /\ ScoreTable[QRedis][log[1]] < ScoreTable[QRedis][log[2]]

====
